---- MODULE Spec2Model ----
(***************************************************************************)
(* Plan-generation job lifecycle of fitana (plan/views.py,                 *)
(* plan/services.py, plan/tasks.py, plan/models.py, payment/models.py,     *)
(* payment/views.py, and the progress update of                            *)
(* questionnaire/serializers.py), the methods of UserProgress taken by     *)
(* themselves (SpecProgress), and the phone login of the accounts app      *)
(* (accounts/models.py, accounts/serializers.py; SpecOTP).                 *)
(*                                                                         *)
(* Database semantics assumed by the model: every ORM statement outside    *)
(* transaction.atomic() autocommits; Model.save() rewrites every column    *)
(* of the row from the in-memory object; a plain read sees the last        *)
(* committed row (READ COMMITTED); select_for_update() takes a row lock    *)
(* that is held until the enclosing transaction commits or rolls back, and *)
(* an UPDATE of a locked row waits for the lock.                           *)
(*                                                                         *)
(* Two lookups of the views are modelled by what the view code reads, not  *)
(* by what the rest of the repository can produce:                         *)
(*   - UserGoal.objects.get(user=..., is_completed=True): questionnaire/   *)
(*     models.py declares no is_completed column, so the attribute is an   *)
(*     input of the model (goalCompleted, drawn in Init);                  *)
(*   - Payment.objects.filter(status='completed'): no code of the payment  *)
(*     app writes 'completed', so a row with that status is an input of    *)
(*     the model too (payment row 1, drawn in Init).                       *)
(* Request routing is outside the model: each handler is entered with the  *)
(* arguments its body uses.                                                *)
(***************************************************************************)
EXTENDS Integers, Sequences, FiniteSets, Bags, TLC

\* ------------------------------------------------------------------ bounds
MaxJobs == 2        \* job row ids the database can hand out
MaxPayments == 2    \* payment row ids
MaxDup == 1         \* duplicate deliveries of a task message (at-least-once)
MaxCancel == 1      \* cancel requests that pass the status test
MaxRetry == 4       \* manual retries that pass can_retry
MaxCancelRetry == 1 \* the same, in the workload that also cancels
MaxRaceRetry == 2   \* the same, in the workload with two concurrent handlers
MaxForce == 1       \* force-complete requests that find their job
MaxCreate == 1      \* payments created through the gateway
MaxVerify == 2      \* payment verify callbacks
MaxRegister == 2    \* questionnaire registrations
MaxView == 1        \* requests for the plan summary that find one
MaxPatch == 1       \* PATCH requests on the progress resource that find a row
MaxCompleted == 2   \* length of completed_steps before a call of a progress method
MaxCalls == 1       \* calls of the progress methods on one progress object
MaxOtp == 2         \* PhoneOTP row ids
MaxCode == 2        \* distinct OTP codes the generator can draw
MaxOtpVerify == 2   \* verify requests that find a matching OTP
MaxTime == 3        \* ticks of the wall clock, in units of the OTP lifetime

Workers == {"w1", "w2"}
Clients == {"c1", "c2"}
JobIds == 1..MaxJobs
PayIds == 1..MaxPayments
OtpIds == 1..MaxOtp
Codes == 1..MaxCode

\* ------------------------------------------------------- program constants
max_retries == 3        \* PlanGeneration.max_retries default
task_max_retries == 3   \* @shared_task(bind=True, max_retries=3)

STEP_CHOICES ==
  <<"goal_selection", "questionnaire", "payment_pending", "payment_completed",
    "plan_generation", "plan_ready", "completed">>

Steps == {STEP_CHOICES[i] : i \in 1..Len(STEP_CHOICES)}

JobStatuses == {"pending", "queued", "processing", "completed", "failed", "cancelled"}

PaymentStatuses == {"pending", "successful", "failed", "refunded", "cancelled"}

\* ------------------------------------------------------------ UserProgress
NoProgress ==
  [exists |-> FALSE, current_step |-> "goal_selection", completed_steps |-> <<>>]

NewProgress ==
  [exists |-> TRUE, current_step |-> "goal_selection", completed_steps |-> <<>>]

InSeq(x, s) == \E i \in 1..Len(s) : s[i] = x

step_progression(step) ==
  CASE step = "goal_selection" -> "questionnaire"
    [] step = "questionnaire" -> "payment_pending"
    [] step = "payment_pending" -> "payment_completed"
    [] step = "payment_completed" -> "plan_generation"
    [] step = "plan_generation" -> "plan_ready"
    [] step = "plan_ready" -> "completed"
    [] OTHER -> "none"

mark_step_completed_OnlyFromCurrent(p, step) ==
  LET cs == IF InSeq(step, p.completed_steps)
            THEN p.completed_steps
            ELSE Append(p.completed_steps, step)
      nxt == step_progression(step)
  IN [p EXCEPT !.completed_steps = cs,
               !.current_step = IF nxt # "none" /\ step = p.current_step THEN nxt ELSE @]

mark_step_completed(p, step) ==
  LET cs == IF InSeq(step, p.completed_steps)
            THEN p.completed_steps
            ELSE Append(p.completed_steps, step)
      nxt == step_progression(step)
  IN [p EXCEPT !.completed_steps = cs,
               !.current_step = IF nxt # "none" THEN nxt ELSE @]

\* plan/models.py 56-57: the list can_access_step searches
step_order ==
  <<"goal_selection", "questionnaire", "payment_pending", "payment_completed",
    "plan_generation", "plan_ready", "completed">>

\* list.index(x): the first position of x, counted from 0; ValueError when x is
\* not in the list
index(s, x) ==
  IF InSeq(x, s)
    THEN (CHOOSE i \in 1..Len(s) : s[i] = x /\ \A k \in 1..(i - 1) : s[k] # x) - 1
    ELSE -1

can_access_step_Strict(p, step) ==
  index(step_order, step) < index(step_order, p.current_step)

\* plan/models.py 59-62, for arguments that index() finds
can_access_step(p, step) ==
  index(step_order, step) <= index(step_order, p.current_step)

\* the steps that have a successor in the table of mark_step_completed
KeySteps == {step \in Steps : step_progression(step) # "none"}

\* ---------------------------------------------------------- PlanGeneration
NoJob ==
  [status |-> "absent", retry_count |-> 0, error_message |-> "",
   queued_at |-> 0, started_at |-> FALSE, completed_at |-> FALSE,
   workout_plan |-> FALSE, diet_plan |-> FALSE]

can_retry_Inclusive(row) == row.retry_count <= max_retries /\ row.status = "failed"

can_retry_AnyStatus(row) == row.retry_count < max_retries

can_retry(row) == row.retry_count < max_retries /\ row.status = "failed"

\* ----------------------------------------------------------------- Payment
NoPayment == [status |-> "absent", gateway_authority |-> FALSE]

\* ---------------------------------------------------------------- PhoneOTP
\* row: "absent" (id not handed out yet), "stored" or "deleted"
NoOtp == [row |-> "absent", code |-> 0, expires_at |-> 0, is_used |-> FALSE]

\* accounts/models.py 89: timedelta(minutes=5), the unit of the clock here
OtpLifetime == 1

is_expired(otp, now) == now > otp.expires_at

is_valid(otp, now) == ~is_expired(otp, now) /\ ~otp.is_used

VARIABLES
  goalCompleted,   \* the user has a UserGoal row that is_completed=True matches
  payments,        \* Payment rows of the user
  progress,        \* the user's UserProgress row
  jobs,            \* PlanGeneration rows (committed state)
  workoutRows,     \* job ids that a WorkoutPlan row points to (plan_generation)
  dietRows,        \* job ids that a DietPlan row points to
  summaryRows,     \* job ids whose plans the user's UserPlanSummary row links
  lock,            \* holder of the row lock of each job
  tasks,           \* bag of generate_user_plan_async messages in the broker
  wk,              \* worker processes
  cl,              \* request handlers in flight
  clock,           \* timezone.now() as used for queued_at
  quota,           \* requests the environment may still issue, per kind
  response,        \* the last HTTP response: handler and outcome
  otpRows,         \* PhoneOTP rows of one phone number
  userExists       \* a User row with that phone number exists

vars ==
  <<goalCompleted, payments, progress, jobs, workoutRows, dietRows,
    summaryRows, lock, tasks, wk, cl, clock, quota, response, otpRows, userExists>>

\* err: what the exception raised inside the atomic block was, as far as the
\* handlers of services.py 372 and tasks.py 21 are concerned ("none" when no
\* exception was raised)
IdleWorker ==
  [pc |-> "idle", job |-> 0, retries |-> 0, claimed |-> FALSE, obj |-> NoJob,
   err |-> "none"]

OffWorker == [IdleWorker EXCEPT !.pc = "off"]

\* The environment: which worker processes run, which request handlers can be
\* in flight at once, and how many requests of each kind are issued.  Requests
\* that a handler rejects are not counted.
NoQuota ==
  [workers |-> {}, clients |-> Clients, retry |-> 0, cancel |-> 0, force |-> 0, dup |-> 0,
   create |-> 0, verify |-> 0, register |-> 0, view |-> 0, patch |-> 0]

Workloads ==
  { [NoQuota EXCEPT !.workers = Workers, !.dup = MaxDup, !.cancel = MaxCancel],
    [NoQuota EXCEPT !.workers = {"w1"}, !.clients = {"c1"}, !.retry = MaxRetry],
    [NoQuota EXCEPT !.workers = {"w1"}, !.retry = MaxRaceRetry],
    [NoQuota EXCEPT !.workers = {"w1"}, !.retry = MaxCancelRetry, !.cancel = MaxCancel],
    [NoQuota EXCEPT !.workers = {"w1"}, !.force = MaxForce, !.cancel = MaxCancel],
    [NoQuota EXCEPT !.workers = {"w1"}, !.clients = {"c1"}, !.create = MaxCreate,
                    !.verify = MaxVerify],
    [NoQuota EXCEPT !.workers = {"w1"}, !.register = MaxRegister, !.view = MaxView,
                    !.patch = MaxPatch, !.cancel = MaxCancel] }

IdleClient == [pc |-> "idle", job |-> 0, obj |-> NoJob]

OffClient == [IdleClient EXCEPT !.pc = "off"]

NoResponse == [op |-> "none", outcome |-> "none"]

Init ==
  /\ goalCompleted \in BOOLEAN
  /\ payments \in {[p \in PayIds |-> NoPayment],
                   [p \in PayIds |-> IF p = 1
                                       THEN [status |-> "completed",
                                             gateway_authority |-> FALSE]
                                       ELSE NoPayment]}
  /\ progress = NoProgress
  /\ jobs = [j \in JobIds |-> NoJob]
  /\ workoutRows = {}
  /\ dietRows = {}
  /\ summaryRows = {}
  /\ lock = [j \in JobIds |-> "none"]
  /\ tasks = EmptyBag
  /\ clock = 0
  /\ \E wl \in Workloads :
       /\ wk = [w \in Workers |-> IF w \in wl.workers THEN IdleWorker ELSE OffWorker]
       /\ cl = [c \in Clients |-> IF c \in wl.clients THEN IdleClient ELSE OffClient]
       /\ quota = [k \in DOMAIN wl \ {"workers", "clients"} |-> wl[k]]
  /\ response = NoResponse
  /\ otpRows = [o \in OtpIds |-> NoOtp]
  /\ userExists = FALSE

\* hasattr(user_goal, 'plan_generation'): a job row exists for the goal
GoalHasJob == \E j \in JobIds : jobs[j].status # "absent"

FreeJobId == CHOOSE j \in JobIds : jobs[j].status = "absent" /\
                 \A k \in JobIds : jobs[k].status = "absent" => j <= k

Respond(c, op, outcome) ==
  /\ cl' = [cl EXCEPT ![c] = IdleClient]
  /\ response' = [op |-> op, outcome |-> outcome]

Proceed(c, pc, j, obj) ==
  /\ cl' = [cl EXCEPT ![c] = [pc |-> pc, job |-> j, obj |-> obj]]
  /\ UNCHANGED response

\* --------------------------------------------------- UserProgressView.get
GetProgress ==
  /\ ~progress.exists
  /\ progress' = NewProgress
  /\ UNCHANGED <<otpRows, userExists, goalCompleted, payments, jobs, workoutRows, dietRows,
                 summaryRows, lock, tasks, wk, cl, clock, quota, response>>

\* plan/views.py 44-57: the handler loads the row, keeps only 'user_feedback'
\* of the request data (no serializer field has that name)...
PatchGet(c) ==
  /\ cl[c].pc = "idle"
  /\ IF ~progress.exists
       THEN Respond(c, "patch", "not_found")
       ELSE /\ quota.patch > 0
            /\ Proceed(c, "patch_save", 0, progress)
  /\ quota' = IF progress.exists THEN [quota EXCEPT !.patch = @ - 1] ELSE quota
  /\ UNCHANGED <<otpRows, userExists, goalCompleted, payments, progress, jobs, workoutRows, dietRows,
                 summaryRows, lock, tasks, wk, clock>>

\* ...and serializer.save() writes the loaded object back, every column of it
PatchSave(c) ==
  /\ cl[c].pc = "patch_save"
  /\ progress' = cl[c].obj
  /\ Respond(c, "patch", "saved")
  /\ UNCHANGED <<otpRows, userExists, goalCompleted, payments, jobs, workoutRows, dietRows,
                 summaryRows, lock, tasks, wk, clock, quota>>

\* ------------------ CompleteRegistrationSerializer.complete_registration
\* questionnaire/serializers.py 455-463
Register ==
  /\ quota.register > 0
  /\ quota' = [quota EXCEPT !.register = @ - 1]
  /\ progress' = mark_step_completed(IF progress.exists THEN progress ELSE NewProgress,
                                     "goal_selection")
  /\ response' = [op |-> "register", outcome |-> "registered"]
  /\ UNCHANGED <<otpRows, userExists, goalCompleted, payments, jobs, workoutRows, dietRows,
                 summaryRows, lock, tasks, wk, cl, clock>>

\* ------------------------------------------------ UserPlanSummaryView.get
\* plan/views.py 168-184
ViewPlan ==
  /\ IF summaryRows = {}
       THEN /\ response' = [op |-> "view", outcome |-> "not_found"]
            /\ UNCHANGED <<progress, quota>>
       ELSE /\ quota.view > 0
            /\ quota' = [quota EXCEPT !.view = @ - 1]
            /\ IF ~progress.exists
                 THEN /\ response' = [op |-> "view", outcome |-> "error"]
                      /\ UNCHANGED progress
                 ELSE /\ response' = [op |-> "view", outcome |-> "shown"]
                      /\ progress' = IF progress.current_step = "plan_ready"
                                       THEN mark_step_completed(progress, "plan_ready")
                                       ELSE progress
  /\ UNCHANGED <<otpRows, userExists, goalCompleted, payments, jobs, workoutRows, dietRows,
                 summaryRows, lock, tasks, wk, cl, clock>>

\* ------------------------------------------------------ PaymentCreateView
FreePayId == CHOOSE p \in PayIds : payments[p].status = "absent" /\
                 \A q \in PayIds : payments[q].status = "absent" => p <= q

GatewayResults == {"success", "failure", "exception"}

\* payment/views.py 60-123
PaymentCreate(result) ==
  /\ quota.create > 0
  /\ quota' = [quota EXCEPT !.create = @ - 1]
  /\ \E p \in PayIds : payments[p].status = "absent"
  /\ payments' = [payments EXCEPT ![FreePayId] =
                    IF result = "success"
                      THEN [status |-> "pending", gateway_authority |-> TRUE]
                      ELSE [status |-> "failed", gateway_authority |-> FALSE]]
  /\ response' = [op |-> "create_payment",
                  outcome |-> IF result = "success" THEN "created" ELSE "error"]
  /\ UNCHANGED <<otpRows, userExists, goalCompleted, progress, jobs, workoutRows, dietRows,
                 summaryRows, lock, tasks, wk, cl, clock>>

\* payment/models.py 71-104: mark_successful, mark_failed, mark_cancelled
mark_successful(row) == [row EXCEPT !.status = "successful"]

mark_failed(row) == [row EXCEPT !.status = "failed"]

mark_cancelled(row) == [row EXCEPT !.status = "cancelled"]

\* payment/views.py 168-248
PaymentVerify(p, status_param, result) ==
  /\ quota.verify > 0
  /\ quota' = [quota EXCEPT !.verify = @ - 1]
  /\ payments[p].gateway_authority
  /\ IF status_param # "OK"
       THEN /\ payments' = [payments EXCEPT ![p] = mark_cancelled(@)]
            /\ response' = [op |-> "verify", outcome |-> "cancelled"]
       ELSE IF result = "success"
         THEN /\ payments' = [payments EXCEPT ![p] = mark_successful(@)]
              /\ response' = [op |-> "verify", outcome |-> "verified"]
         ELSE /\ payments' = [payments EXCEPT ![p] = mark_failed(@)]
              /\ response' = [op |-> "verify", outcome |-> "failed"]
  /\ UNCHANGED <<otpRows, userExists, goalCompleted, progress, jobs, workoutRows, dietRows,
                 summaryRows, lock, tasks, wk, cl, clock>>

\* ------------------------------------------------- PlanGenerationView.post
HasCompletedPayment == \E p \in PayIds : payments[p].status = "completed"

\* views.py 82-100
EnqueueCheck(c) ==
  /\ cl[c].pc = "idle"
  /\ IF ~goalCompleted
       THEN Respond(c, "enqueue", "no_questionnaire")
       ELSE IF ~HasCompletedPayment
         THEN Respond(c, "enqueue", "no_payment")
         ELSE IF GoalHasJob
           THEN Respond(c, "enqueue", "already_exists")
           ELSE Proceed(c, "enq_create", 0, NoJob)
  /\ UNCHANGED <<otpRows, userExists, goalCompleted, payments, progress, jobs, workoutRows, dietRows,
                 summaryRows, lock, tasks, wk, clock, quota>>

UserGoalUnique_NoIndex == TRUE

\* unique index of the OneToOneField PlanGeneration.user_goal
UserGoalUnique == ~GoalHasJob

NewJob(t) ==
  [NoJob EXCEPT !.status = "queued", !.queued_at = t]

countdown_Linear(r) == 60 * (r + 1)

\* tasks.py 26: delay before the re-attempt that follows attempt number r
countdown(r) == 60 * (2 ^ r)

\* a task message: .delay() sends attempt 0 with no delay, self.retry() sends
\* attempt r with the delay computed from the attempt before it
Msg(j, r) ==
  [job |-> j, retries |-> r, countdown |-> IF r = 0 THEN 0 ELSE countdown(r - 1)]

\* views.py 103-116: the insert, the progress update and the dispatch
EnqueueCreated(c) ==
  /\ cl[c].pc = "enq_create"
  /\ UserGoalUnique
  /\ progress.exists
  /\ \E j \in JobIds : jobs[j].status = "absent"
  /\ jobs' = [jobs EXCEPT ![FreeJobId] = NewJob(clock + 1)]
  /\ clock' = clock + 1
  /\ progress' = mark_step_completed(progress, "payment_completed")
  /\ tasks' = tasks (+) SetToBag({Msg(FreeJobId, 0)})
  /\ Respond(c, "enqueue", "created")
  /\ UNCHANGED <<otpRows, userExists, goalCompleted, payments, workoutRows, dietRows, summaryRows,
                 lock, wk, quota>>

EnqueueError_NoRollback(c) ==
  /\ cl[c].pc = "enq_create"
  /\ ~(UserGoalUnique /\ progress.exists)
  /\ \E j \in JobIds : jobs[j].status = "absent"
  /\ jobs' = [jobs EXCEPT ![FreeJobId] = NewJob(clock + 1)]
  /\ Respond(c, "enqueue", IF ~UserGoalUnique THEN "error_integrity"
                                               ELSE "error_no_progress")
  /\ UNCHANGED <<otpRows, userExists, goalCompleted, payments, progress, workoutRows, dietRows,
                 summaryRows, lock, tasks, wk, clock, quota>>

\* views.py 125-128: IntegrityError of the insert or DoesNotExist of the
\* progress lookup; the atomic block is rolled back
EnqueueError(c) ==
  /\ cl[c].pc = "enq_create"
  /\ ~(UserGoalUnique /\ progress.exists)
  /\ Respond(c, "enqueue", IF ~UserGoalUnique THEN "error_integrity"
                                               ELSE "error_no_progress")
  /\ UNCHANGED <<otpRows, userExists, goalCompleted, payments, progress, jobs, workoutRows, dietRows,
                 summaryRows, lock, tasks, wk, clock, quota>>

\* ------------------------------------------- RetryPlanGenerationView.post
\* views.py 137-146
RetryCheck(c, j) ==
  /\ cl[c].pc = "idle"
  /\ IF jobs[j].status = "absent"
       THEN Respond(c, "retry", "not_found")
       ELSE IF ~can_retry(jobs[j])
         THEN Respond(c, "retry", "cannot_retry")
         ELSE /\ quota.retry > 0
              /\ Proceed(c, "retry_save", j, jobs[j])
  /\ quota' = IF can_retry(jobs[j]) THEN [quota EXCEPT !.retry = @ - 1] ELSE quota
  /\ UNCHANGED <<otpRows, userExists, goalCompleted, payments, progress, jobs, workoutRows, dietRows,
                 summaryRows, lock, tasks, wk, clock>>

RetriedRow_NoIncrement(obj, t) ==
  [obj EXCEPT !.status = "queued", !.queued_at = t, !.error_message = ""]

RetriedRow(obj, t) ==
  [obj EXCEPT !.status = "queued", !.queued_at = t, !.error_message = "",
              !.retry_count = @ + 1]

\* views.py 148-159
RetrySave(c) ==
  /\ cl[c].pc = "retry_save"
  /\ lock[cl[c].job] = "none"
  /\ jobs' = [jobs EXCEPT ![cl[c].job] = RetriedRow(cl[c].obj, clock + 1)]
  /\ clock' = clock + 1
  /\ tasks' = tasks (+) SetToBag({Msg(cl[c].job, 0)})
  /\ Respond(c, "retry", "retried")
  /\ UNCHANGED <<otpRows, userExists, goalCompleted, payments, progress, workoutRows, dietRows,
                 summaryRows, lock, wk, quota>>

\* -------------------------------------------------- cancel_plan_generation
\* get_object_or_404(PlanGeneration, user_goal=user_goal)
JobOfGoal == CHOOSE j \in JobIds : jobs[j].status # "absent"

\* views.py 342-348
CancelCheck(c) ==
  /\ cl[c].pc = "idle"
  /\ IF ~goalCompleted
       THEN Respond(c, "cancel", "no_questionnaire")
       ELSE IF ~GoalHasJob
         THEN Respond(c, "cancel", "not_found")
         ELSE IF jobs[JobOfGoal].status \notin {"queued", "processing"}
           THEN Respond(c, "cancel", "cannot_cancel")
           ELSE /\ quota.cancel > 0
                /\ Proceed(c, "cancel_save", JobOfGoal, jobs[JobOfGoal])
  /\ quota' = IF cl'[c].pc = "cancel_save" THEN [quota EXCEPT !.cancel = @ - 1] ELSE quota
  /\ UNCHANGED <<otpRows, userExists, goalCompleted, payments, progress, jobs, workoutRows, dietRows,
                 summaryRows, lock, tasks, wk, clock>>

\* views.py 350-360
CancelSave(c) ==
  /\ cl[c].pc = "cancel_save"
  /\ lock[cl[c].job] = "none"
  /\ jobs' = [jobs EXCEPT ![cl[c].job] = [cl[c].obj EXCEPT !.status = "cancelled"]]
  /\ progress' = IF progress.exists
                   THEN [progress EXCEPT !.current_step = "payment_completed"]
                   ELSE progress
  /\ Respond(c, "cancel", "cancelled")
  /\ UNCHANGED <<otpRows, userExists, goalCompleted, payments, workoutRows, dietRows, summaryRows,
                 lock, tasks, wk, clock, quota>>

\* --------------------------------------- ForceCompleteGenerationView.post
\* views.py 381
ForceGet(c, j) ==
  /\ cl[c].pc = "idle"
  /\ IF jobs[j].status = "absent"
       THEN Respond(c, "force", "not_found")
       ELSE /\ quota.force > 0
            /\ Proceed(c, "force_processing", j, jobs[j])
  /\ quota' = IF cl'[c].pc = "force_processing" THEN [quota EXCEPT !.force = @ - 1] ELSE quota
  /\ UNCHANGED <<otpRows, userExists, goalCompleted, payments, progress, jobs, workoutRows, dietRows,
                 summaryRows, lock, tasks, wk, clock>>

ClaimedRow(row) == [row EXCEPT !.status = "processing", !.started_at = TRUE]

\* services.py 396-399
ForceProcessing(c) ==
  /\ cl[c].pc = "force_processing"
  /\ lock[cl[c].job] = "none"
  /\ jobs' = [jobs EXCEPT ![cl[c].job] = ClaimedRow(cl[c].obj)]
  /\ Proceed(c, "force_workout", cl[c].job, ClaimedRow(cl[c].obj))
  /\ UNCHANGED <<otpRows, userExists, goalCompleted, payments, progress, workoutRows, dietRows,
                 summaryRows, lock, tasks, wk, clock, quota>>

\* services.py 403-416
ForceWorkout(c) ==
  /\ cl[c].pc = "force_workout"
  /\ IF cl[c].job \in workoutRows
       THEN /\ Respond(c, "force", "error")
            /\ UNCHANGED workoutRows
       ELSE /\ workoutRows' = workoutRows \cup {cl[c].job}
            /\ Proceed(c, "force_diet", cl[c].job, cl[c].obj)
  /\ UNCHANGED <<otpRows, userExists, goalCompleted, payments, progress, jobs, dietRows,
                 summaryRows, lock, tasks, wk, clock, quota>>

\* services.py 419-436
ForceDiet(c) ==
  /\ cl[c].pc = "force_diet"
  /\ IF cl[c].job \in dietRows
       THEN /\ Respond(c, "force", "error")
            /\ UNCHANGED dietRows
       ELSE /\ dietRows' = dietRows \cup {cl[c].job}
            /\ Proceed(c, "force_summary", cl[c].job, cl[c].obj)
  /\ UNCHANGED <<otpRows, userExists, goalCompleted, payments, progress, jobs, workoutRows,
                 summaryRows, lock, tasks, wk, clock, quota>>

\* services.py 439-444
ForceSummary(c) ==
  /\ cl[c].pc = "force_summary"
  /\ IF summaryRows # {}
       THEN /\ Respond(c, "force", "error")
            /\ UNCHANGED summaryRows
       ELSE /\ summaryRows' = summaryRows \cup {cl[c].job}
            /\ Proceed(c, "force_completed", cl[c].job, cl[c].obj)
  /\ UNCHANGED <<otpRows, userExists, goalCompleted, payments, progress, jobs, workoutRows, dietRows,
                 lock, tasks, wk, clock, quota>>

CompletedRow(obj) ==
  [obj EXCEPT !.workout_plan = TRUE, !.diet_plan = TRUE, !.status = "completed",
              !.completed_at = TRUE]

\* services.py 447-451
ForceCompleted(c) ==
  /\ cl[c].pc = "force_completed"
  /\ lock[cl[c].job] = "none"
  /\ jobs' = [jobs EXCEPT ![cl[c].job] = CompletedRow(cl[c].obj)]
  /\ Proceed(c, "force_progress", cl[c].job, NoJob)
  /\ UNCHANGED <<otpRows, userExists, goalCompleted, payments, progress, workoutRows, dietRows,
                 summaryRows, lock, tasks, wk, clock, quota>>

\* services.py 454-455, views.py 386-388
ForceProgress(c) ==
  /\ cl[c].pc = "force_progress"
  /\ progress.exists
  /\ progress' = mark_step_completed(progress, "plan_generation")
  /\ Respond(c, "force", "completed")
  /\ UNCHANGED <<otpRows, userExists, goalCompleted, payments, jobs, workoutRows, dietRows,
                 summaryRows, lock, tasks, wk, clock, quota>>

\* --------------------------------------------- generate_user_plan_async
Deliver(w) ==
  /\ wk[w].pc = "idle"
  /\ \E t \in BagToSet(tasks) :
       /\ tasks' = tasks (-) SetToBag({t})
       /\ wk' = [wk EXCEPT ![w] = [IdleWorker EXCEPT !.pc = "run", !.job = t.job,
                                                  !.retries = t.retries]]
  /\ UNCHANGED <<otpRows, userExists, goalCompleted, payments, progress, jobs, workoutRows, dietRows,
                 summaryRows, lock, cl, clock, quota, response>>

\* at-least-once delivery: the broker hands a message out and keeps it
DeliverDuplicate(w) ==
  /\ wk[w].pc = "idle"
  /\ quota.dup > 0
  /\ quota' = [quota EXCEPT !.dup = @ - 1]
  /\ \E t \in BagToSet(tasks) :
       wk' = [wk EXCEPT ![w] = [IdleWorker EXCEPT !.pc = "run", !.job = t.job,
                                               !.retries = t.retries]]
  /\ UNCHANGED <<otpRows, userExists, goalCompleted, payments, progress, jobs, workoutRows, dietRows,
                 summaryRows, lock, tasks, cl, clock, response>>

\* tasks.py 14-26: generate_user_plan returned False; the task raises and
\* either re-schedules itself or goes on to the exhaustion handler
TaskFails(w) ==
  IF wk[w].retries < task_max_retries
    THEN /\ tasks' = tasks (+) SetToBag({Msg(wk[w].job, wk[w].retries + 1)})
         /\ wk' = [wk EXCEPT ![w] = IdleWorker]
    ELSE /\ tasks' = tasks
         /\ wk' = [wk EXCEPT ![w] = [@ EXCEPT !.pc = "exh_get", !.obj = NoJob]]

\* services.py 286-296: select_for_update().get, status test, claim
WorkerClaim(w) ==
  /\ wk[w].pc = "run"
  /\ lock[wk[w].job] = "none"
  /\ IF jobs[wk[w].job].status # "queued"
       THEN /\ TaskFails(w)
            /\ UNCHANGED lock
       ELSE /\ lock' = [lock EXCEPT ![wk[w].job] = w]
            /\ wk' = [wk EXCEPT ![w] = [@ EXCEPT !.pc = "assembling",
                                                !.claimed = TRUE,
                                                !.obj = ClaimedRow(jobs[wk[w].job])]]
            /\ UNCHANGED tasks
  /\ UNCHANGED <<otpRows, userExists, goalCompleted, payments, progress, jobs, workoutRows, dietRows,
                 summaryRows, cl, clock, quota, response>>

\* services.py 306-350: the three inserts succeed (OneToOne constraints) and
\* services.py 366 finds the progress row
CanPersist(j) ==
  /\ j \notin workoutRows
  /\ j \notin dietRows
  /\ summaryRows = {}
  /\ progress.exists

\* services.py 298-370 and the commit of the atomic block
WorkerComplete(w) ==
  /\ wk[w].pc = "assembling"
  /\ CanPersist(wk[w].job)
  /\ jobs' = [jobs EXCEPT ![wk[w].job] = CompletedRow(wk[w].obj)]
  /\ workoutRows' = workoutRows \cup {wk[w].job}
  /\ dietRows' = dietRows \cup {wk[w].job}
  /\ summaryRows' = summaryRows \cup {wk[w].job}
  /\ progress' = mark_step_completed(progress, "plan_generation")
  /\ lock' = [lock EXCEPT ![wk[w].job] = "none"]
  /\ wk' = [wk EXCEPT ![w] = IdleWorker]
  /\ UNCHANGED <<otpRows, userExists, goalCompleted, payments, tasks, cl, clock, quota, response>>

\* what can go wrong in services.py 298-367: a fault that may pass (database
\* or assembler unavailable) or one that will not (malformed questionnaire
\* data, a payload the inserts reject)
ErrorKinds == {"transient", "permanent"}

\* an exception inside the atomic block: everything since the claim is undone
WorkerRollback(w, kind) ==
  /\ wk[w].pc = "assembling"
  /\ lock' = [lock EXCEPT ![wk[w].job] = "none"]
  /\ wk' = [wk EXCEPT ![w] = [@ EXCEPT !.pc = "fail_get", !.err = kind]]
  /\ UNCHANGED <<otpRows, userExists, goalCompleted, payments, progress, jobs, workoutRows, dietRows,
                 summaryRows, tasks, cl, clock, quota, response>>

\* services.py 377
WorkerFailGet(w) ==
  /\ wk[w].pc = "fail_get"
  /\ wk' = [wk EXCEPT ![w] = [@ EXCEPT !.pc = "fail_save", !.obj = jobs[wk[w].job]]]
  /\ UNCHANGED <<otpRows, userExists, goalCompleted, payments, progress, jobs, workoutRows, dietRows,
                 summaryRows, lock, tasks, cl, clock, quota, response>>

FailedRow_NoMessage(obj) ==
  [obj EXCEPT !.status = "failed", !.completed_at = TRUE]

FailedRow(obj) ==
  [obj EXCEPT !.status = "failed", !.error_message = "error", !.completed_at = TRUE]

\* services.py 378-385, then tasks.py 14-26
WorkerFailSave(w) ==
  /\ wk[w].pc = "fail_save"
  /\ lock[wk[w].job] = "none"
  /\ jobs' = [jobs EXCEPT ![wk[w].job] = FailedRow(wk[w].obj)]
  /\ TaskFails(w)
  /\ UNCHANGED <<otpRows, userExists, goalCompleted, payments, progress, workoutRows, dietRows,
                 summaryRows, lock, cl, clock, quota, response>>

\* tasks.py 31
WorkerExhGet(w) ==
  /\ wk[w].pc = "exh_get"
  /\ wk' = [wk EXCEPT ![w] = [@ EXCEPT !.pc = "exh_save", !.obj = jobs[wk[w].job]]]
  /\ UNCHANGED <<otpRows, userExists, goalCompleted, payments, progress, jobs, workoutRows, dietRows,
                 summaryRows, lock, tasks, cl, clock, quota, response>>

ExhaustedRow(obj) ==
  [obj EXCEPT !.status = "failed", !.error_message = "max_retries_exceeded"]

\* tasks.py 32-38
WorkerExhSave(w) ==
  /\ wk[w].pc = "exh_save"
  /\ lock[wk[w].job] = "none"
  /\ jobs' = [jobs EXCEPT ![wk[w].job] = ExhaustedRow(wk[w].obj)]
  /\ wk' = [wk EXCEPT ![w] = IdleWorker]
  /\ UNCHANGED <<otpRows, userExists, goalCompleted, payments, progress, workoutRows, dietRows,
                 summaryRows, lock, tasks, cl, clock, quota, response>>

Next ==
  \/ GetProgress
  \/ \E c \in Clients : PatchGet(c)
  \/ \E c \in Clients : PatchSave(c)
  \/ Register
  \/ ViewPlan
  \/ \E result \in GatewayResults : PaymentCreate(result)
  \/ \E p \in PayIds, status_param \in {"OK", "NOK"}, result \in GatewayResults :
       PaymentVerify(p, status_param, result)
  \/ \E c \in Clients : EnqueueCheck(c)
  \/ \E c \in Clients : EnqueueCreated(c)
  \/ \E c \in Clients : EnqueueError(c)
  \/ \E c \in Clients, j \in JobIds : RetryCheck(c, j)
  \/ \E c \in Clients : RetrySave(c)
  \/ \E c \in Clients : CancelCheck(c)
  \/ \E c \in Clients : CancelSave(c)
  \/ \E c \in Clients, j \in JobIds : ForceGet(c, j)
  \/ \E c \in Clients : ForceProcessing(c)
  \/ \E c \in Clients : ForceWorkout(c)
  \/ \E c \in Clients : ForceDiet(c)
  \/ \E c \in Clients : ForceSummary(c)
  \/ \E c \in Clients : ForceCompleted(c)
  \/ \E c \in Clients : ForceProgress(c)
  \/ \E w \in Workers : Deliver(w)
  \/ \E w \in Workers : DeliverDuplicate(w)
  \/ \E w \in Workers : WorkerClaim(w)
  \/ \E w \in Workers : WorkerComplete(w)
  \/ \E w \in Workers, kind \in ErrorKinds : WorkerRollback(w, kind)
  \/ \E w \in Workers : WorkerFailGet(w)
  \/ \E w \in Workers : WorkerFailSave(w)
  \/ \E w \in Workers : WorkerExhGet(w)
  \/ \E w \in Workers : WorkerExhSave(w)

Spec == Init /\ [][Next]_vars

\* Scheduling: a worker process that can take a step (receive a message, take
\* the row lock, finish or abort the assembly, run a failure handler) takes it,
\* and a request handler that has started runs to its end.  Nothing obliges
\* the environment to send a request or the broker to deliver a message twice.
WorkerStep(w) ==
  \/ Deliver(w)
  \/ WorkerClaim(w)
  \/ WorkerComplete(w)
  \/ \E kind \in ErrorKinds : WorkerRollback(w, kind)
  \/ WorkerFailGet(w)
  \/ WorkerFailSave(w)
  \/ WorkerExhGet(w)
  \/ WorkerExhSave(w)

HandlerStep(c) ==
  \/ PatchSave(c)
  \/ EnqueueCreated(c)
  \/ EnqueueError(c)
  \/ RetrySave(c)
  \/ CancelSave(c)
  \/ ForceProcessing(c)
  \/ ForceWorkout(c)
  \/ ForceDiet(c)
  \/ ForceSummary(c)
  \/ ForceCompleted(c)
  \/ ForceProgress(c)

Fairness ==
  /\ \A w \in Workers : WF_vars(WorkerStep(w))
  /\ \A c \in Clients : WF_vars(HandlerStep(c))

SpecFair == Init /\ [][Next]_vars /\ Fairness

\* The job lifecycle without the staff-only force-complete endpoint
NextNoForce ==
  \/ GetProgress
  \/ \E c \in Clients : PatchGet(c)
  \/ \E c \in Clients : PatchSave(c)
  \/ Register
  \/ ViewPlan
  \/ \E result \in GatewayResults : PaymentCreate(result)
  \/ \E p \in PayIds, status_param \in {"OK", "NOK"}, result \in GatewayResults :
       PaymentVerify(p, status_param, result)
  \/ \E c \in Clients : EnqueueCheck(c)
  \/ \E c \in Clients : EnqueueCreated(c)
  \/ \E c \in Clients : EnqueueError(c)
  \/ \E c \in Clients, j \in JobIds : RetryCheck(c, j)
  \/ \E c \in Clients : RetrySave(c)
  \/ \E c \in Clients : CancelCheck(c)
  \/ \E c \in Clients : CancelSave(c)
  \/ \E w \in Workers : Deliver(w)
  \/ \E w \in Workers : DeliverDuplicate(w)
  \/ \E w \in Workers : WorkerClaim(w)
  \/ \E w \in Workers : WorkerComplete(w)
  \/ \E w \in Workers, kind \in ErrorKinds : WorkerRollback(w, kind)
  \/ \E w \in Workers : WorkerFailGet(w)
  \/ \E w \in Workers : WorkerFailSave(w)
  \/ \E w \in Workers : WorkerExhGet(w)
  \/ \E w \in Workers : WorkerExhSave(w)

SpecNoForce == Init /\ [][NextNoForce]_vars

\* ----------------------------------- the methods of UserProgress by themselves
\* Progress objects the methods are called on: any current_step, and a
\* completed_steps list of distinct steps.
CompletedInputs ==
  {cs \in UNION {[1..n -> Steps] : n \in 0..MaxCompleted} :
     \A i \in 1..Len(cs), k \in 1..Len(cs) : cs[i] = cs[k] => i = k}

ProgressInputs ==
  {[exists |-> TRUE, current_step |-> c, completed_steps |-> cs] :
     c \in Steps, cs \in CompletedInputs}

\* arguments of the calls: the seven steps and a name that is none of them
StepArgs == Steps \cup {"unknown_step"}

InitProgress ==
  /\ goalCompleted = FALSE
  /\ payments = [p \in PayIds |-> NoPayment]
  /\ progress \in ProgressInputs
  /\ jobs = [j \in JobIds |-> NoJob]
  /\ workoutRows = {}
  /\ dietRows = {}
  /\ summaryRows = {}
  /\ lock = [j \in JobIds |-> "none"]
  /\ tasks = EmptyBag
  /\ wk = [w \in Workers |-> OffWorker]
  /\ cl = [c \in Clients |-> OffClient]
  /\ clock = 0
  /\ quota = [calls |-> MaxCalls]
  /\ response = NoResponse
  /\ otpRows = [o \in OtpIds |-> NoOtp]
  /\ userExists = FALSE

\* plan/models.py 34-52
MarkStep(step) ==
  /\ quota.calls > 0
  /\ quota' = [quota EXCEPT !.calls = @ - 1]
  /\ progress' = mark_step_completed(progress, step)
  /\ response' = [op |-> "mark_step_completed", arg |-> step, outcome |-> "saved"]
  /\ UNCHANGED <<otpRows, userExists, goalCompleted, payments, jobs, workoutRows,
                 dietRows, summaryRows, lock, tasks, wk, cl, clock>>

\* plan/models.py 54-62
CanAccessStep(step) ==
  /\ quota.calls > 0
  /\ quota' = [quota EXCEPT !.calls = @ - 1]
  /\ response' =
       [op |-> "can_access_step", arg |-> step,
        outcome |-> IF ~InSeq(progress.current_step, step_order) \/ ~InSeq(step, step_order)
                      THEN "ValueError"
                      ELSE IF can_access_step(progress, step) THEN "True" ELSE "False"]
  /\ UNCHANGED <<otpRows, userExists, goalCompleted, payments, progress, jobs,
                 workoutRows, dietRows, summaryRows, lock, tasks, wk, cl, clock>>

NextProgress ==
  \/ \E step \in StepArgs : MarkStep(step)
  \/ \E step \in StepArgs : CanAccessStep(step)

SpecProgress == InitProgress /\ [][NextProgress]_vars

\* ------------------------------------------------ phone login (accounts app)
InitOTP ==
  /\ goalCompleted = FALSE
  /\ payments = [p \in PayIds |-> NoPayment]
  /\ progress = NoProgress
  /\ jobs = [j \in JobIds |-> NoJob]
  /\ workoutRows = {}
  /\ dietRows = {}
  /\ summaryRows = {}
  /\ lock = [j \in JobIds |-> "none"]
  /\ tasks = EmptyBag
  /\ wk = [w \in Workers |-> OffWorker]
  /\ cl = [c \in Clients |-> IdleClient]
  /\ clock = 0
  /\ quota = [otp_verify |-> MaxOtpVerify]
  /\ response = NoResponse
  /\ otpRows = [o \in OtpIds |-> NoOtp]
  /\ userExists \in BOOLEAN

FreeOtpIds == {o \in OtpIds : otpRows[o].row = "absent"}

FreeOtpId == CHOOSE o \in FreeOtpIds : \A q \in FreeOtpIds : o <= q

\* time passes
Tick ==
  /\ clock < MaxTime
  /\ clock' = clock + 1
  /\ UNCHANGED <<otpRows, userExists, goalCompleted, payments, progress, jobs,
                 workoutRows, dietRows, summaryRows, lock, tasks, wk, cl, quota,
                 response>>

\* accounts/serializers.py 40: PhoneOTP.objects.filter(phone, is_used=False).delete()
OtpSendDelete(c) ==
  /\ cl[c].pc = "idle"
  /\ Cardinality(FreeOtpIds) > Cardinality({d \in Clients : cl[d].pc = "otp_send"})
  /\ otpRows' = [o \in OtpIds |->
                   IF otpRows[o].row = "stored" /\ ~otpRows[o].is_used
                     THEN [otpRows[o] EXCEPT !.row = "deleted"]
                     ELSE otpRows[o]]
  /\ Proceed(c, "otp_send", 0, NoJob)
  /\ UNCHANGED <<userExists, goalCompleted, payments, progress, jobs, workoutRows,
                 dietRows, summaryRows, lock, tasks, wk, clock, quota>>

\* accounts/serializers.py 43-53 and accounts/models.py 87-90
OtpSendCreate(c, code) ==
  /\ cl[c].pc = "otp_send"
  /\ otpRows' = [otpRows EXCEPT ![FreeOtpId] =
                   [row |-> "stored", code |-> code,
                    expires_at |-> clock + OtpLifetime, is_used |-> FALSE]]
  /\ Respond(c, "send_otp", "sent")
  /\ UNCHANGED <<userExists, goalCompleted, payments, progress, jobs, workoutRows,
                 dietRows, summaryRows, lock, tasks, wk, clock, quota>>

\* PhoneOTP.objects.get(phone=phone, code=code, is_used=False)
OtpMatches(code) ==
  {o \in OtpIds : otpRows[o].row = "stored" /\ otpRows[o].code = code /\
                  ~otpRows[o].is_used}

\* accounts/serializers.py 101-139
OtpValidate(c, code, password) ==
  /\ cl[c].pc = "idle"
  /\ IF OtpMatches(code) = {}
       THEN /\ Respond(c, "verify_otp", "invalid")
            /\ UNCHANGED <<otpRows, quota>>
       ELSE /\ quota.otp_verify > 0
            /\ quota' = [quota EXCEPT !.otp_verify = @ - 1]
            /\ IF Cardinality(OtpMatches(code)) > 1
                 THEN /\ Respond(c, "verify_otp", "error")
                      /\ UNCHANGED otpRows
                 ELSE LET o == CHOOSE q \in OtpMatches(code) : TRUE
                      IN IF ~is_valid(otpRows[o], clock)
                           THEN /\ otpRows' = [otpRows EXCEPT ![o].row = "deleted"]
                                /\ Respond(c, "verify_otp", "expired")
                           ELSE /\ UNCHANGED otpRows
                                /\ IF userExists
                                     THEN Proceed(c, "otp_mark_used", o, otpRows[o])
                                     ELSE IF ~password
                                       THEN Respond(c, "verify_otp", "password_required")
                                       ELSE Proceed(c, "otp_create_user", o, otpRows[o])
  /\ UNCHANGED <<userExists, goalCompleted, payments, progress, jobs, workoutRows,
                 dietRows, summaryRows, lock, tasks, wk, clock>>

\* accounts/serializers.py 155-166: User.phone is unique
OtpCreateUser(c) ==
  /\ cl[c].pc = "otp_create_user"
  /\ IF userExists
       THEN /\ Respond(c, "verify_otp", "error")
            /\ UNCHANGED userExists
       ELSE /\ userExists' = TRUE
            /\ Proceed(c, "otp_mark_used", cl[c].job, cl[c].obj)
  /\ UNCHANGED <<otpRows, goalCompleted, payments, progress, jobs, workoutRows,
                 dietRows, summaryRows, lock, tasks, wk, clock, quota>>

\* accounts/serializers.py 148-152 and 168-172, accounts/views.py 79-93:
\* save() updates the row, or inserts it again when it has been deleted
OtpMarkUsed(c) ==
  /\ cl[c].pc = "otp_mark_used"
  /\ otpRows' = [otpRows EXCEPT ![cl[c].job] =
                   [cl[c].obj EXCEPT !.row = "stored", !.is_used = TRUE]]
  /\ Respond(c, "verify_otp", "verified")
  /\ UNCHANGED <<userExists, goalCompleted, payments, progress, jobs, workoutRows,
                 dietRows, summaryRows, lock, tasks, wk, clock, quota>>

NextOTP ==
  \/ Tick
  \/ \E c \in Clients : OtpSendDelete(c)
  \/ \E c \in Clients, code \in Codes : OtpSendCreate(c, code)
  \/ \E c \in Clients, code \in Codes, password \in BOOLEAN :
       OtpValidate(c, code, password)
  \/ \E c \in Clients : OtpCreateUser(c)
  \/ \E c \in Clients : OtpMarkUsed(c)

SpecOTP == InitOTP /\ [][NextOTP]_vars

\* ===================================================================== claims

\* C1: of the deliveries that try to claim one queued job, exactly one
\* performs queued -> processing and runs the assembly: no two workers have
\* both claimed the job for the same queued_at stamp.
C1_OneClaimPerQueuedJob ==
  \A w1 \in Workers, w2 \in Workers :
    ( /\ w1 # w2
      /\ wk[w1].claimed /\ wk[w2].claimed
      /\ wk[w1].job = wk[w2].job
      /\ wk[w1].pc \in {"assembling", "fail_get"}
      /\ wk[w2].pc \in {"assembling", "fail_get"} )
    => wk[w1].obj.queued_at # wk[w2].obj.queued_at

\* C2: a delivery whose attempt found the job not queued is a no-op: when
\* that attempt ends (exhaustion handler included) no job row has changed.
C2_NotQueuedDeliveryIsNoOp ==
  [][\A w \in Workers :
       (wk[w].pc = "exh_save" /\ ~wk[w].claimed /\ wk'[w].pc = "idle")
         => jobs' = jobs]_vars

\* C3: a job that was cancelled while a worker processed it ends cancelled
\* with no workout-plan, diet-plan or summary row.
C3_CancelledJobHasNoPlans ==
  \A j \in JobIds :
    jobs[j].status = "cancelled"
      => (j \notin workoutRows /\ j \notin dietRows /\ j \notin summaryRows)

\* C4: completion is all-or-nothing in every state: a job has a workout plan
\* row iff it has a diet plan row, and a completed job is linked to both.
C4_CompletionAllOrNothing ==
  \A j \in JobIds :
    /\ (j \in workoutRows) <=> (j \in dietRows)
    /\ jobs[j].status = "completed"
         => (jobs[j].workout_plan /\ jobs[j].diet_plan /\
             j \in workoutRows /\ j \in dietRows)

\* C5: at most one job of the (user, goal) pair is queued or processing
\* (indeed at most one job row exists), and an enqueue request that loses
\* the race for the insert is rejected while the winner's job exists.
ActiveJobs == {j \in JobIds : jobs[j].status \in {"queued", "processing"}}

PaidByVerification == \E p \in PayIds : payments[p].status = "successful"

C6_PaidUserCanEnqueue ==
  [][(goalCompleted /\ PaidByVerification /\ ~GoalHasJob /\ progress.exists)
       => ~(response' # response /\
            response' = [op |-> "enqueue", outcome |-> "no_payment"])]_vars

\* C7: a rejected enqueue request changes neither the job rows nor the
\* user's progress and dispatches no task.
EnqueueRejections ==
  {"no_questionnaire", "no_payment", "already_exists", "error_integrity",
   "error_no_progress"}

RejectedEnqueueStep ==
  /\ response'.op = "enqueue"
  /\ response'.outcome \in EnqueueRejections
  /\ \/ response' # response
     \/ \E c \in Clients : cl[c].pc = "enq_create" /\ cl'[c].pc = "idle"

C7_RejectedEnqueueChangesNothing ==
  [][RejectedEnqueueStep
       => (jobs' = jobs /\ progress' = progress /\ tasks' = tasks)]_vars

C7_Witness ==
  /\ response = [op |-> "enqueue", outcome |-> "error_no_progress"]
  /\ ~GoalHasJob
  /\ tasks = EmptyBag

\* C8: 0 <= retry_count <= max_retries for every job in every state.
C8_RetryCountBounded ==
  \A j \in JobIds : jobs[j].retry_count >= 0 /\ jobs[j].retry_count <= max_retries

C8_Witness ==
  \E j \in JobIds : jobs[j].status = "queued" /\ jobs[j].retry_count = max_retries

\* C9: a manual retry is accepted only for a job that is failed with
\* retry_count < max_retries; any other retry request is answered with an
\* error, leaves every job row as it was and dispatches nothing.
C9_RejectedRetryChangesNothing ==
  [][/\ \A c \in Clients :
          (cl[c].pc = "idle" /\ cl'[c].pc = "retry_save")
            => (jobs[cl'[c].job].status = "failed" /\
                jobs[cl'[c].job].retry_count < max_retries)
     /\ (response' # response /\
         response' = [op |-> "retry", outcome |-> "cannot_retry"])
          => (jobs' = jobs /\ tasks' = tasks /\ clock' = clock)]_vars

C9_Witness ==
  /\ response = [op |-> "retry", outcome |-> "cannot_retry"]
  /\ \E j \in JobIds : jobs[j].status = "failed" /\ jobs[j].retry_count = max_retries
  /\ \A c \in Clients : cl[c].pc \in {"idle", "off"}

C11_CancelledOnlyFromActive ==
  [][/\ \A j \in JobIds :
          (jobs'[j].status = "cancelled" /\ jobs[j].status # "cancelled")
            => jobs[j].status \in {"queued", "processing"}
     /\ (response' # response /\
         response' = [op |-> "cancel", outcome |-> "cannot_cancel"])
          => (jobs' = jobs /\ progress' = progress)]_vars

\* C12: when the assembly or the persistence of its result raises, the
\* attempt leaves no plan or summary row and no progress advance behind, and
\* the failure handler stores status failed with an error message and
\* completed_at stamped.
C12_FailureRecorded ==
  [][\A w \in Workers :
       /\ (wk[w].pc = "assembling" /\ wk'[w].pc = "fail_get")
            => /\ jobs' = jobs /\ progress' = progress
               /\ workoutRows' = workoutRows /\ dietRows' = dietRows
               /\ summaryRows' = summaryRows
       /\ (wk[w].pc = "fail_save" /\ wk'[w].pc # "fail_save")
            => /\ jobs'[wk[w].job].status = "failed"
               /\ jobs'[wk[w].job].error_message # ""
               /\ jobs'[wk[w].job].completed_at
               /\ progress' = progress
               /\ workoutRows' = workoutRows /\ dietRows' = dietRows
               /\ summaryRows' = summaryRows]_vars

C12_Witness ==
  /\ \E j \in JobIds : /\ jobs[j].status = "failed"
                       /\ jobs[j].error_message = "error"
                       /\ jobs[j].completed_at
                       /\ j \notin workoutRows /\ j \notin dietRows
  /\ summaryRows = {}
  /\ progress.current_step = "plan_generation"
  /\ ~InSeq("plan_generation", progress.completed_steps)

\* C13: a transient assembly failure with automatic re-attempts left does not
\* make the job failed.
C13_TransientFailureInvisible ==
  [][\A w \in Workers :
       ( /\ wk[w].pc = "fail_save" /\ wk'[w].pc # "fail_save"
         /\ wk[w].err = "transient"
         /\ wk[w].retries < task_max_retries )
         => jobs'[wk[w].job].status # "failed"]_vars

\* C14: a permanent execution error makes the job failed and schedules no
\* automatic re-attempt.
C14_PermanentErrorNoReattempt ==
  [][\A w \in Workers :
       ( /\ wk[w].pc = "fail_save" /\ wk'[w].pc # "fail_save"
         /\ wk[w].err = "permanent" )
         => (jobs'[wk[w].job].status = "failed" /\ tasks' = tasks)]_vars

\* C15: a task is re-attempted at most three times, re-attempt n = 1, 2, 3 is
\* scheduled with a delay of 60, 120, 240 seconds, and when the re-attempts
\* are used up the task stops and the job is failed with the 'max retries
\* exceeded' message.
C15_AutoRetryBounded ==
  /\ [](/\ \A m \in BagToSet(tasks) :
              /\ m.retries \in 0..3
              /\ m.countdown = <<0, 60, 120, 240>>[m.retries + 1]
        /\ \A w \in Workers :
              /\ wk[w].retries \in 0..3
              /\ wk[w].pc \in {"exh_get", "exh_save"} => wk[w].retries = 3)
  /\ [][\A w \in Workers :
          (wk[w].pc = "exh_save" /\ wk'[w].pc = "idle")
            => /\ jobs'[wk[w].job].status = "failed"
               /\ jobs'[wk[w].job].error_message = "max_retries_exceeded"
               /\ tasks' = tasks]_vars

C15_Witness ==
  /\ \E j \in JobIds : /\ jobs[j].status = "failed"
                       /\ jobs[j].error_message = "max_retries_exceeded"
  /\ tasks = EmptyBag
  /\ \A w \in Workers : wk[w].pc \in {"idle", "off"}

\* C16: no step of a worker (delivery, claim, completion, failure handling,
\* automatic re-attempt, exhaustion) changes a job's retry_count.
C16_WorkerKeepsRetryCount ==
  [][(wk' # wk)
       => \A j \in JobIds : jobs'[j].retry_count = jobs[j].retry_count]_vars

\* C17: every change of a stored status follows an edge of the state
\* machine; the writes of the worker that claimed the job count as made from
\* processing.
Edges ==
  { <<"absent", "queued">>, <<"pending", "queued">>, <<"queued", "processing">>,
    <<"processing", "completed">>, <<"processing", "failed">>,
    <<"queued", "cancelled">>, <<"processing", "cancelled">>,
    <<"failed", "queued">> }

C17_StatusFollowsEdges ==
  [][\A j \in JobIds :
       jobs'[j].status # jobs[j].status
         => \/ <<jobs[j].status, jobs'[j].status>> \in Edges
            \/ \E w \in Workers :
                 /\ wk[w].claimed /\ wk[w].job = j /\ wk'[w] # wk[w]
                 /\ wk[w].pc \in {"assembling", "fail_save"}
                 /\ jobs[j].status = "queued"
                 /\ <<"processing", jobs'[j].status>> \in Edges]_vars

\* C18: completion and progress advance are one atomic unit: the step that
\* makes a job completed leaves the user's completed_steps containing
\* plan_generation.
C18_CompletionAdvancesProgress ==
  [][\A j \in JobIds :
       (jobs'[j].status = "completed" /\ jobs[j].status # "completed")
         => InSeq("plan_generation", progress'.completed_steps)]_vars

\* C19: current_step is one of the seven steps and is the successor of the
\* most recently completed step, or goal_selection when nothing is completed.
C19_CurrentStepIsSuccessor ==
  progress.exists
    => /\ progress.current_step \in Steps
       /\ progress.current_step =
            IF progress.completed_steps = <<>>
              THEN "goal_selection"
              ELSE step_progression(
                     progress.completed_steps[Len(progress.completed_steps)])

\* C20: completed_steps only grows, holds no step twice and holds only steps
\* of the seven.
C20_CompletedStepsMonotonic ==
  /\ [](\A i \in 1..Len(progress.completed_steps) :
          /\ progress.completed_steps[i] \in Steps
          /\ \A k \in 1..Len(progress.completed_steps) :
                progress.completed_steps[k] = progress.completed_steps[i] => k = i)
  /\ [][\A i \in 1..Len(progress.completed_steps) :
          InSeq(progress.completed_steps[i], progress'.completed_steps)]_vars

\* C21: the progress row is created with get-or-create semantics and afterwards
\* changes only as mark_step_completed changes it, and no operation fails
\* because the user has no progress row yet.
C21_ProgressOnlyByMarkStep ==
  [][/\ progress' # progress
          => \/ ~progress.exists /\ progress' = NewProgress
             \/ \E step \in Steps :
                  progress' = mark_step_completed(
                                IF progress.exists THEN progress ELSE NewProgress, step)
     /\ response' # response
          => response' \notin {[op |-> "enqueue", outcome |-> "error_no_progress"],
                               [op |-> "view", outcome |-> "error"]}]_vars

\* C22: mark_step_completed with a step that is not a key of the progression
\* table (an unknown name, or 'completed') changes neither current_step nor
\* completed_steps.
C22_UnknownStepNoChange ==
  [][(response'.op = "mark_step_completed" /\ quota' # quota /\
      response'.arg \notin KeySteps)
       => progress' = progress]_vars

\* C23: for every step s with a successor and every prior progress state,
\* after mark_step_completed(state, s) completed_steps contains s and every
\* step it contained before, and current_step is the successor of s.
C23_MarkStepEffect ==
  [][(response'.op = "mark_step_completed" /\ quota' # quota /\
      response'.arg \in KeySteps)
       => /\ InSeq(response'.arg, progress'.completed_steps)
          /\ \A i \in 1..Len(progress.completed_steps) :
                InSeq(progress.completed_steps[i], progress'.completed_steps)
          /\ progress'.current_step =
                [goal_selection |-> "questionnaire", questionnaire |-> "payment_pending",
                 payment_pending |-> "payment_completed",
                 payment_completed |-> "plan_generation",
                 plan_generation |-> "plan_ready",
                 plan_ready |-> "completed"][response'.arg]]_vars

C23_Witness ==
  /\ response.op = "mark_step_completed"
  /\ response.arg = "questionnaire"
  /\ progress.completed_steps = <<"plan_generation", "goal_selection", "questionnaire">>
  /\ progress.current_step = "payment_pending"

\* C24: can_access_step(state, step) is true exactly when the position of step
\* in the order goal_selection < questionnaire < payment_pending <
\* payment_completed < plan_generation < plan_ready < completed is at most the
\* position of current_step, for every pair of the seven steps, and the call
\* changes no state.
C24_CanAccessStepIffNotAhead ==
  [][(response'.op = "can_access_step" /\ quota' # quota /\ response'.arg \in Steps)
       => LET position == [goal_selection |-> 1, questionnaire |-> 2,
                           payment_pending |-> 3, payment_completed |-> 4,
                           plan_generation |-> 5, plan_ready |-> 6, completed |-> 7]
          IN /\ response'.outcome \in {"True", "False"}
             /\ (response'.outcome = "True")
                  <=> (position[response'.arg] <= position[progress.current_step])
             /\ progress' = progress]_vars

C24_Witness ==
  /\ response = [op |-> "can_access_step", arg |-> "plan_ready", outcome |-> "False"]
  /\ progress.current_step = "plan_generation"

\* C25: completed and cancelled are absorbing: no step changes the status of a
\* job that is completed or cancelled, and a completed job keeps its links to
\* its workout and diet plan.
C25_CompletedCancelledAbsorbing ==
  [][\A j \in JobIds :
       /\ jobs[j].status \in {"completed", "cancelled"}
            => jobs'[j].status = jobs[j].status
       /\ (jobs[j].status = "completed" /\ jobs[j].workout_plan /\ jobs[j].diet_plan)
            => (jobs'[j].workout_plan /\ jobs'[j].diet_plan)]_vars

\* C26: under fair scheduling every job that is queued or processing
\* eventually is completed, failed or cancelled.
C26_ActiveJobEventuallySettles ==
  \A j \in JobIds :
    (jobs[j].status \in {"queued", "processing"})
      ~> (jobs[j].status \in {"completed", "failed", "cancelled"})

\* C27: current_step never moves backward in the step order.
C27_CurrentStepNeverBackward ==
  [][progress.exists
       => index(step_order, progress'.current_step)
            >= index(step_order, progress.current_step)]_vars

\* C28: the save of every accepted manual retry raises the stored retry_count
\* by exactly one and dispatches one task, so that the stored count is the number of
\* accepted retries, also when retry requests run concurrently.
C28_NoLostRetryUpdate ==
  [][\A c \in Clients :
       (cl[c].pc = "retry_save" /\ cl'[c].pc = "idle")
         => /\ jobs'[cl[c].job].retry_count = jobs[cl[c].job].retry_count + 1
            /\ tasks' = tasks (+) SetToBag({Msg(cl[c].job, 0)})]_vars

\* C29: a payment that is successful stays successful, and a payment's status
\* changes only from pending, to successful, failed or cancelled.
C29_SuccessfulPaymentStays ==
  [][\A p \in PayIds :
       (payments[p].status # "absent" /\ payments'[p].status # payments[p].status)
         => /\ payments[p].status = "pending"
            /\ payments'[p].status \in {"successful", "failed", "cancelled"}]_vars

\* C30: an OTP is single-use: a verify request succeeds only with an OTP that
\* no earlier request has used, so no OTP yields two successful verifications.
C30_OtpSingleUse ==
  [][\A c \in Clients :
       (cl[c].pc = "otp_mark_used" /\ cl'[c].pc = "idle")
         => ~otpRows[cl[c].job].is_used]_vars
====
